---- MODULE Spec2Model ----
(***************************************************************************)
(* TwistBE: the social graph and engagement counters of the post and user  *)
(* services (src/src/services/post.service.ts, user.service.ts).           *)
(*                                                                         *)
(* The store is a relational database reached through Prisma.  A request   *)
(* is a process; every awaited Prisma call is one step.  The statements of *)
(* an interactive transaction ($transaction(async tx => ...)) run at the   *)
(* database's default isolation (no isolationLevel is passed): each        *)
(* statement reads the committed rows, a write locks the row it touches    *)
(* until the transaction ends, and nothing it wrote is visible to other    *)
(* requests before the commit.  A statement outside a transaction commits  *)
(* by itself.  The store is the one whose filters take mode: "insensitive" *)
(* (user.service.ts:149), whose default isolation is READ COMMITTED.       *)
(*                                                                         *)
(* A service call takes a free request slot, runs its store calls one step *)
(* at a time and ends by returning or throwing; `returned` shows the call  *)
(* that ended in the last step.  A store error can end any call at the     *)
(* store call it is waiting for.                                           *)
(*                                                                         *)
(* getPosts and getPostDetail are one query each and answer from the       *)
(* committed rows.  Their currentUserId is optional; Prisma drops a filter *)
(* whose value is undefined from the query.                                *)
(***************************************************************************)
EXTENDS Integers, FiniteSets, Sequences, TLC

\* ---------------------------------------------------------------- bounds
NumUsers == 2
NumProcs == 2
MaxPosts == 2
MaxCalls == 3

\* post.service.ts:76: the default page size of getPosts.
DefaultLimit == 10

UserIds == 1..NumUsers
PostIds == 1..MaxPosts
Procs == 1..NumProcs
\* The text an updatePost call carries (post.controller.ts:54-62: a
\* non-empty string); 0 is the text a post starts with.
Texts == {1}
\* currentUserId of a read: a user id, or 0 for undefined (no user is set on
\* the request context, post.controller.ts:26 and 40).
Viewers == {0} \cup UserIds
\* limit and offset of a getPosts call (post.controller.ts:27-28).
Limits == {1, DefaultLimit}
Offsets == {0, 1}

VARIABLES
  users,          \* User rows: id -> [exists, followerCount, followingCount]
  follows,        \* Follower rows: <<userId, followingId>> -> number of rows
  posts,          \* Post rows: id -> [exists, userId, parentPostId, isDeleted,
                  \*                   content, isEdited, updatedAt,
                  \*                   likeCount, commentCount, repostCount]
  likes,          \* Like rows: set of [id, userId, postId]
  reposts,        \* Repost rows: set of [id, userId, postId, isQuotePost]
  comments,       \* Comment rows: set of [id, userId, postId, isDeleted]
  nextPostId,     \* autoincrement sequences of the four id columns
  nextLikeId,
  nextRepostId,
  nextCommentId,
  pc,             \* position of every request
  op,             \* the call a request runs, with its locals and pending writes
  returned,       \* the call that ended in the last step, with its outcome
  calls,          \* number of calls received so far
  likeToggles,    \* history: <<userId, postId>> -> number of toggleLikePost
                  \* calls that have returned
  softDeleted     \* history: ids of the posts a deletePost call returned
                  \* true for

store == <<users, follows, posts, likes, reposts, comments>>
seqs == <<nextPostId, nextLikeId, nextRepostId, nextCommentId>>
hist == <<likeToggles, softDeleted>>
vars == <<users, follows, posts, likes, reposts, comments,
          nextPostId, nextLikeId, nextRepostId, nextCommentId, pc, op,
          returned, calls, likeToggles, softDeleted>>

\* ---------------------------------------------------------------- helpers
RECURSIVE SumOver(_, _)
SumOver(S, f) ==
  IF S = {} THEN 0
  ELSE LET x == CHOOSE y \in S : TRUE IN f[x] + SumOver(S \ {x}, f)

NoPost ==
  [exists |-> FALSE, userId |-> 0, parentPostId |-> 0, isDeleted |-> FALSE,
   content |-> 0, isEdited |-> FALSE, updatedAt |-> 0,
   likeCount |-> 0, commentCount |-> 0, repostCount |-> 0]

\* post.service.ts:53-59: the row createPost writes.  content 0 is the text
\* the post was created with, updatedAt 0 is null.
NewPost(userId, parentPostId) ==
  [exists |-> TRUE, userId |-> userId, parentPostId |-> parentPostId,
   isDeleted |-> FALSE, content |-> 0, isEdited |-> FALSE, updatedAt |-> 0,
   likeCount |-> 0, commentCount |-> 0, repostCount |-> 0]

\* A request slot that runs nothing.
NoOp ==
  [name |-> "none", userId |-> 0, target |-> 0, found |-> 0, row |-> 0,
   d1 |-> 0, d2 |-> 0, content |-> 0, ret |-> "none", result |-> <<>>]

Call(name, userId, target) ==
  [name |-> name, userId |-> userId, target |-> target, found |-> 0,
   row |-> 0, d1 |-> 0, d2 |-> 0, content |-> 0, ret |-> "none",
   result |-> <<>>]

\* The call of p ends with a returned value: its slot is free again.
Returns(p, o, value) ==
  /\ pc' = [pc EXCEPT ![p] = "idle"]
  /\ op' = [op EXCEPT ![p] = NoOp]
  /\ returned' = [o EXCEPT !.ret = value]

\* The call of p ends with a thrown error; what its transaction wrote is
\* rolled back with its locals.
Throws(p, o) ==
  /\ pc' = [pc EXCEPT ![p] = "idle"]
  /\ op' = [op EXCEPT ![p] = NoOp]
  /\ returned' = [Call(o.name, o.userId, o.target) EXCEPT !.ret = "error"]

\* A free request slot receives the next call.
Begin(p) ==
  /\ pc[p] = "idle"
  /\ calls < MaxCalls
  /\ calls' = calls + 1

\* The call of p goes on to its next awaited store call.
Goto(p, o, label) ==
  /\ pc' = [pc EXCEPT ![p] = label]
  /\ op' = [op EXCEPT ![p] = o]
  /\ returned' = NoOp

\* ------------------------------------------------------------------ Init
\* The users are registered and user 1 has created one top-level post; no
\* like, repost, comment or follow exists and no request is under way.
Init ==
  /\ users = [u \in UserIds |->
                [exists |-> TRUE, followerCount |-> 0, followingCount |-> 0]]
  /\ follows = [k \in UserIds \X UserIds |-> 0]
  /\ posts = [i \in PostIds |-> IF i = 1 THEN NewPost(1, 0) ELSE NoPost]
  /\ likes = {}
  /\ reposts = {}
  /\ comments = {}
  /\ nextPostId = 2
  /\ nextLikeId = 1
  /\ nextRepostId = 1
  /\ nextCommentId = 1
  /\ pc = [p \in Procs |-> "idle"]
  /\ op = [p \in Procs |-> NoOp]
  /\ returned = NoOp
  /\ calls = 0
  /\ likeToggles = [k \in UserIds \X PostIds |-> 0]
  /\ softDeleted = {}

\* ------------------------------------------------- row locks of the store
\* The Follower rows <<a, b>> that q deleted in its open transaction.
HoldsFollowKey(q, a, b) ==
  /\ op[q].name = "unfollowUser"
  /\ pc[q] \in {"unfUpdFollowing", "unfUpdFollower", "unfCommit"}
  /\ op[q].userId = a /\ op[q].target = b /\ op[q].found > 0

\* The User row u that q updated in its open transaction.
HoldsUser(q, u) ==
  /\ op[q].name = "unfollowUser"
  /\ \/ pc[q] \in {"unfUpdFollower", "unfCommit"} /\ op[q].d1 # 0 /\ op[q].userId = u
     \/ pc[q] = "unfCommit" /\ op[q].d2 # 0 /\ op[q].target = u

FollowKeyLocked(p, a, b) == \E q \in Procs \ {p} : HoldsFollowKey(q, a, b)
UserLocked(p, u) == \E q \in Procs \ {p} : HoldsUser(q, u)

\* ------------------------------------------------------------ followUser
\* followUser without the check of line 172.
FollowStartNoSelfCheck(p, userId, followingId) ==
  /\ Begin(p)
  /\ LET o == Call("followUser", userId, followingId)
         existingFollow == follows[<<userId, followingId>>] > 0
     IN IF existingFollow THEN Returns(p, [o EXCEPT !.found = 1], "void")
        ELSE Goto(p, o, "followTx")
  /\ UNCHANGED <<store, seqs, hist>>

\* followUser without the early return of lines 181-183.
FollowStartNoExistingCheck(p, userId, followingId) ==
  /\ Begin(p)
  /\ LET o == Call("followUser", userId, followingId)
     IN IF userId = followingId THEN Throws(p, o)
        ELSE Goto(p, o, "followTx")
  /\ UNCHANGED <<store, seqs, hist>>

\* user.service.ts:171-183: the self-follow check and the findUnique.
FollowStart(p, userId, followingId) ==
  /\ Begin(p)
  /\ LET o == Call("followUser", userId, followingId)
         existingFollow == follows[<<userId, followingId>>] > 0
     IN IF userId = followingId THEN Throws(p, o)
        ELSE IF existingFollow THEN Returns(p, [o EXCEPT !.found = 1], "void")
        ELSE Goto(p, o, "followTx")
  /\ UNCHANGED <<store, seqs, hist>>

\* The batch without its update of followerCount (lines 192-195).
FollowWritesNoFollowerCount(us, userId, followingId) ==
  [us EXCEPT ![userId].followingCount = @ + 1]

\* user.service.ts:188-195: the two counter updates of the batch transaction.
FollowWrites(us, userId, followingId) ==
  [us EXCEPT ![userId].followingCount = @ + 1,
             ![followingId].followerCount = @ + 1]

\* The unique key (userId, followingId) that findUnique's
\* userId_followingId selector names rejects a second row (P2002); a
\* missing User row fails the foreign key or the update (P2003, P2025).
FollowTx(p) ==
  LET a == op[p].userId
      b == op[p].target
  IN /\ pc[p] = "followTx"
     /\ ~FollowKeyLocked(p, a, b)
     /\ IF follows[<<a, b>>] > 0 \/ ~users[a].exists \/ ~users[b].exists
        THEN /\ Throws(p, op[p])
             /\ UNCHANGED <<store, seqs, hist, calls>>
        ELSE /\ ~UserLocked(p, a) /\ ~UserLocked(p, b)
             /\ follows' = [follows EXCEPT ![<<a, b>>] = @ + 1]
             /\ users' = FollowWrites(users, a, b)
             /\ Returns(p, op[p], "void")
             /\ UNCHANGED <<posts, likes, reposts, comments, seqs, hist, calls>>

\* ---------------------------------------------------------- unfollowUser
\* unfollowUser without the guard of line 213.
UnfollowAfterDeleteAlways(count) == "unfUpdFollowing"

\* user.service.ts:213: the counters are touched only after a deletion.
UnfollowAfterDelete(count) ==
  IF count > 0 THEN "unfUpdFollowing" ELSE "unfCommit"

\* user.service.ts:208-211: the transaction opens and deleteMany runs.
UnfollowStart(p, userId, followingId) ==
  /\ Begin(p)
  /\ ~FollowKeyLocked(p, userId, followingId)
  /\ LET count == follows[<<userId, followingId>>]
         o == [Call("unfollowUser", userId, followingId) EXCEPT !.found = count]
     IN Goto(p, o, UnfollowAfterDelete(count))
  /\ UNCHANGED <<store, seqs, hist>>

\* user.service.ts:214-217
UnfollowUpdFollowing(p) ==
  /\ pc[p] = "unfUpdFollowing"
  /\ ~UserLocked(p, op[p].userId)
  /\ IF users[op[p].userId].exists
     THEN Goto(p, [op[p] EXCEPT !.d1 = -1], "unfUpdFollower")
     ELSE Throws(p, op[p])
  /\ UNCHANGED <<store, seqs, hist, calls>>

\* user.service.ts:218-221
UnfollowUpdFollower(p) ==
  /\ pc[p] = "unfUpdFollower"
  /\ ~UserLocked(p, op[p].target)
  /\ IF users[op[p].target].exists
     THEN Goto(p, [op[p] EXCEPT !.d2 = -1], "unfCommit")
     ELSE Throws(p, op[p])
  /\ UNCHANGED <<store, seqs, hist, calls>>

\* user.service.ts:223-225: the callback returns and the transaction commits.
UnfollowCommit(p) ==
  LET a == op[p].userId
      b == op[p].target
  IN /\ pc[p] = "unfCommit"
     /\ follows' = [follows EXCEPT ![<<a, b>>] = @ - op[p].found]
     /\ users' = [u \in UserIds |->
                    [users[u] EXCEPT
                       !.followingCount = @ + (IF u = a THEN op[p].d1 ELSE 0),
                       !.followerCount = @ + (IF u = b THEN op[p].d2 ELSE 0)]]
     /\ Returns(p, op[p], "void")
     /\ UNCHANGED <<posts, likes, reposts, comments, seqs, hist, calls>>

\* -------------------------------------------------------- toggleLikePost
LikeRowsOf(userId, postId) ==
  {l \in likes : l.userId = userId /\ l.postId = postId}

\* The Like row q deleted, and the key q inserted, in its open transaction.
HoldsLikeRow(q, id) ==
  /\ op[q].name = "toggleLikePost"
  /\ pc[q] \in {"likeUpdate", "likeCommit"}
  /\ op[q].found = id /\ id # 0

HoldsLikeKey(q, userId, postId) ==
  /\ op[q].name = "toggleLikePost"
  /\ pc[q] \in {"likeUpdate", "likeCommit"}
  /\ op[q].row # 0 /\ op[q].userId = userId /\ op[q].target = postId

\* The Post row q updated in its open transaction.
HoldsPost(q, postId) ==
  /\ pc[q] \in {"likeCommit", "repostCommit", "commentCommit"}
  /\ op[q].target = postId

PostLocked(p, postId) == \E q \in Procs \ {p} : HoldsPost(q, postId)

\* post.service.ts:149-151: findUnique by the unique key (userId, postId).
LikeFind(p, userId, postId) ==
  /\ Begin(p)
  /\ LET existingLike == LikeRowsOf(userId, postId)
         id == IF existingLike = {} THEN 0
               ELSE (CHOOSE l \in existingLike : TRUE).id
     IN Goto(p, [Call("toggleLikePost", userId, postId) EXCEPT !.found = id],
             "likeWrite")
  /\ UNCHANGED <<store, seqs, hist>>

\* Like without a unique key.
LikeKeyTakenNever(userId, postId) == FALSE

\* The unique key (userId, postId) of Like, which the userId_postId selector
\* of post.service.ts:150 names: a committed row with the key rejects a
\* second one.
LikeKeyTaken(userId, postId) == LikeRowsOf(userId, postId) # {}

\* post.service.ts:153-161: delete the row found, or create one.  A missing
\* row fails the delete (P2025), a taken key the create (P2002), a missing
\* Post or User its foreign key (P2003); a row or key another open
\* transaction wrote makes the statement wait.
LikeWrite(p) ==
  LET userId == op[p].userId
      postId == op[p].target
  IN /\ pc[p] = "likeWrite"
     /\ IF op[p].found # 0
        THEN /\ \A q \in Procs \ {p} : ~HoldsLikeRow(q, op[p].found)
             /\ IF \E l \in likes : l.id = op[p].found
                THEN Goto(p, op[p], "likeUpdate")
                ELSE Throws(p, op[p])
             /\ UNCHANGED <<store, seqs, hist, calls>>
        ELSE /\ \A q \in Procs \ {p} :
                  /\ ~HoldsLikeKey(q, userId, postId)
                  /\ \A l \in LikeRowsOf(userId, postId) : ~HoldsLikeRow(q, l.id)
             /\ IF \/ LikeKeyTaken(userId, postId)
                   \/ ~posts[postId].exists \/ ~users[userId].exists
                THEN /\ Throws(p, op[p])
                     /\ UNCHANGED <<store, seqs, hist, calls>>
                ELSE /\ Goto(p, [op[p] EXCEPT !.row = nextLikeId], "likeUpdate")
                     /\ nextLikeId' = nextLikeId + 1
                     /\ UNCHANGED <<store, nextPostId, nextRepostId,
                                    nextCommentId, hist, calls>>

\* post.service.ts:157 and 164: the counter goes down after a delete and up
\* after a create.
LikeDelta(existingLike) == IF existingLike # 0 THEN -1 ELSE 1

\* post.service.ts:155-158 and 162-165: tx.post.update.
LikeUpdate(p) ==
  /\ pc[p] = "likeUpdate"
  /\ ~PostLocked(p, op[p].target)
  /\ IF posts[op[p].target].exists
     THEN Goto(p, [op[p] EXCEPT !.d1 = LikeDelta(op[p].found)], "likeCommit")
     ELSE Throws(p, op[p])
  /\ UNCHANGED <<store, seqs, hist, calls>>

\* toggleLikePost returning true on both branches.
LikeResultAlwaysTrue(existingLike) == "true"

\* post.service.ts:159 and 166: the value the callback returns.
LikeResult(existingLike) == IF existingLike # 0 THEN "false" ELSE "true"

\* post.service.ts:159-168: the callback returns and the transaction commits.
LikeCommit(p) ==
  LET userId == op[p].userId
      postId == op[p].target
      created == IF op[p].row = 0 THEN {}
                 ELSE {[id |-> op[p].row, userId |-> userId, postId |-> postId]}
  IN /\ pc[p] = "likeCommit"
     /\ likes' = {l \in likes : l.id # op[p].found} \cup created
     /\ posts' = [posts EXCEPT ![postId].likeCount = @ + op[p].d1]
     /\ likeToggles' = [likeToggles EXCEPT ![<<userId, postId>>] = @ + 1]
     /\ Returns(p, op[p], LikeResult(op[p].found))
     /\ UNCHANGED <<users, follows, reposts, comments, seqs, calls, softDeleted>>

\* ---------------------------------------------------------- toggleRepost
\* post.service.ts:176-178: the rows findFirst chooses among.
PlainRepostsOf(userId, postId) ==
  {r \in reposts : r.userId = userId /\ r.postId = postId /\ ~r.isQuotePost}

\* The Repost row q deleted in its open transaction.
HoldsRepostRow(q, id) ==
  /\ op[q].name = "toggleRepost"
  /\ pc[q] \in {"repostUpdate", "repostCommit"}
  /\ op[q].found = id /\ id # 0

\* post.service.ts:176-178: findFirst returns one matching row, or null.
RepostFind(p, userId, postId) ==
  /\ Begin(p)
  /\ LET existingRepost == PlainRepostsOf(userId, postId)
         o == Call("toggleRepost", userId, postId)
     IN IF existingRepost = {} THEN Goto(p, o, "repostWrite")
        ELSE \E r \in existingRepost :
               Goto(p, [o EXCEPT !.found = r.id], "repostWrite")
  /\ UNCHANGED <<store, seqs, hist>>

\* post.service.ts:180-188: delete the row found, or create one.  No key of
\* Repost is used by the code: findFirst filters, and quotePost creates rows
\* with the same userId and postId, so a create meets no unique key.
RepostWrite(p) ==
  LET userId == op[p].userId
      postId == op[p].target
  IN /\ pc[p] = "repostWrite"
     /\ IF op[p].found # 0
        THEN /\ \A q \in Procs \ {p} : ~HoldsRepostRow(q, op[p].found)
             /\ IF \E r \in reposts : r.id = op[p].found
                THEN Goto(p, op[p], "repostUpdate")
                ELSE Throws(p, op[p])
             /\ UNCHANGED <<store, seqs, hist, calls>>
        ELSE IF ~posts[postId].exists \/ ~users[userId].exists
             THEN /\ Throws(p, op[p])
                  /\ UNCHANGED <<store, seqs, hist, calls>>
             ELSE /\ Goto(p, [op[p] EXCEPT !.row = nextRepostId], "repostUpdate")
                  /\ nextRepostId' = nextRepostId + 1
                  /\ UNCHANGED <<store, nextPostId, nextLikeId, nextCommentId,
                                 hist, calls>>

\* post.service.ts:184 and 191
RepostDelta(existingRepost) == IF existingRepost # 0 THEN -1 ELSE 1

\* post.service.ts:182-185 and 189-192: tx.post.update.
RepostUpdate(p) ==
  /\ pc[p] = "repostUpdate"
  /\ ~PostLocked(p, op[p].target)
  /\ IF posts[op[p].target].exists
     THEN Goto(p, [op[p] EXCEPT !.d1 = RepostDelta(op[p].found)], "repostCommit")
     ELSE Throws(p, op[p])
  /\ UNCHANGED <<store, seqs, hist, calls>>

\* post.service.ts:186 and 193
RepostResult(existingRepost) == IF existingRepost # 0 THEN "false" ELSE "true"

\* post.service.ts:186-195: the callback returns and the transaction commits.
RepostCommit(p) ==
  LET userId == op[p].userId
      postId == op[p].target
      created == IF op[p].row = 0 THEN {}
                 ELSE {[id |-> op[p].row, userId |-> userId, postId |-> postId,
                        isQuotePost |-> FALSE]}
  IN /\ pc[p] = "repostCommit"
     /\ reposts' = {r \in reposts : r.id # op[p].found} \cup created
     /\ posts' = [posts EXCEPT ![postId].repostCount = @ + op[p].d1]
     /\ Returns(p, op[p], RepostResult(op[p].found))
     /\ UNCHANGED <<users, follows, likes, comments, seqs, hist, calls>>

\* ------------------------------------------------------------- quotePost
\* post.service.ts:206-213: prisma.repost.create, committed by itself.
QuoteCreate(p, userId, postId) ==
  /\ Begin(p)
  /\ LET o == Call("quotePost", userId, postId)
     IN IF ~posts[postId].exists \/ ~users[userId].exists
        THEN /\ Throws(p, o)
             /\ UNCHANGED <<store, seqs, hist>>
        ELSE /\ reposts' = reposts \cup
                  {[id |-> nextRepostId, userId |-> userId, postId |-> postId,
                    isQuotePost |-> TRUE]}
             /\ nextRepostId' = nextRepostId + 1
             /\ Goto(p, [o EXCEPT !.row = nextRepostId], "quoteUpdate")
             /\ UNCHANGED <<users, follows, posts, likes, comments, nextPostId,
                            nextLikeId, nextCommentId, hist>>

\* post.service.ts:215-219: prisma.post.update, committed by itself.
QuoteUpdate(p) ==
  /\ pc[p] = "quoteUpdate"
  /\ ~PostLocked(p, op[p].target)
  /\ IF posts[op[p].target].exists
     THEN /\ posts' = [posts EXCEPT ![op[p].target].repostCount = @ + 1]
          /\ Returns(p, op[p], "repost")
     ELSE /\ Throws(p, op[p])
          /\ UNCHANGED posts
  /\ UNCHANGED <<users, follows, likes, reposts, comments, seqs, hist, calls>>

\* ------------------------------------------------------------ addComment
\* post.service.ts:230-242: the transaction opens and tx.comment.create runs.
CommentCreate(p, userId, postId) ==
  /\ Begin(p)
  /\ LET o == Call("addComment", userId, postId)
     IN IF ~posts[postId].exists \/ ~users[userId].exists
        THEN /\ Throws(p, o)
             /\ UNCHANGED <<store, seqs, hist>>
        ELSE /\ Goto(p, [o EXCEPT !.row = nextCommentId], "commentUpdate")
             /\ nextCommentId' = nextCommentId + 1
             /\ UNCHANGED <<store, nextPostId, nextLikeId, nextRepostId, hist>>

\* post.service.ts:244-247: tx.post.update.
CommentUpdate(p) ==
  /\ pc[p] = "commentUpdate"
  /\ ~PostLocked(p, op[p].target)
  /\ IF posts[op[p].target].exists
     THEN Goto(p, [op[p] EXCEPT !.d1 = 1], "commentCommit")
     ELSE Throws(p, op[p])
  /\ UNCHANGED <<store, seqs, hist, calls>>

\* post.service.ts:249-255: the callback returns and the transaction commits.
CommentCommit(p) ==
  /\ pc[p] = "commentCommit"
  /\ comments' = comments \cup
       {[id |-> op[p].row, userId |-> op[p].userId, postId |-> op[p].target,
         isDeleted |-> FALSE]}
  /\ posts' = [posts EXCEPT ![op[p].target].commentCount = @ + op[p].d1]
  /\ Returns(p, op[p], "comment")
  /\ UNCHANGED <<users, follows, likes, reposts, seqs, hist, calls>>

\* ------------------------------------------------------------ createPost
\* post.service.ts:53-61: prisma.post.create, committed by itself; 0 stands
\* for no parentPostId.  The model has room for MaxPosts Post rows.
PostCreate(p, userId, parentPostId) ==
  /\ Begin(p)
  /\ nextPostId <= MaxPosts
  /\ LET o == Call("createPost", userId, parentPostId)
     IN IF \/ ~users[userId].exists
           \/ parentPostId # 0 /\ ~posts[parentPostId].exists
        THEN /\ Throws(p, o)
             /\ UNCHANGED <<store, seqs, hist>>
        ELSE /\ posts' = [posts EXCEPT ![nextPostId] = NewPost(userId, parentPostId)]
             /\ nextPostId' = nextPostId + 1
             /\ IF parentPostId # 0
                THEN Goto(p, [o EXCEPT !.row = nextPostId], "postUpdateParent")
                ELSE Returns(p, [o EXCEPT !.row = nextPostId], "post")
             /\ UNCHANGED <<users, follows, likes, reposts, comments, nextLikeId,
                            nextRepostId, nextCommentId, hist>>

\* post.service.ts:63-70: the parent's commentCount, committed by itself.
PostUpdateParent(p) ==
  /\ pc[p] = "postUpdateParent"
  /\ ~PostLocked(p, op[p].target)
  /\ IF posts[op[p].target].exists
     THEN /\ posts' = [posts EXCEPT ![op[p].target].commentCount = @ + 1]
          /\ Returns(p, op[p], "post")
     ELSE /\ Throws(p, op[p])
          /\ UNCHANGED posts
  /\ UNCHANGED <<users, follows, likes, reposts, comments, seqs, hist, calls>>

\* ------------------------------------------------------------ deleteUser
\* user.service.ts:80-81: findUnique; a missing user returns false.
DeleteUserFind(p, userId) ==
  /\ Begin(p)
  /\ LET o == Call("deleteUser", userId, 0)
     IN IF users[userId].exists THEN Goto(p, o, "deleteTx")
        ELSE Returns(p, o, "false")
  /\ UNCHANGED <<store, seqs, hist>>

\* An open transaction of q wrote a row of userId, or a row of or under one
\* of userId's posts: the deletes of the batch wait for it.
HoldsRowOf(q, userId) ==
  \/ HoldsUser(q, userId)
  \/ \E v \in UserIds : HoldsFollowKey(q, userId, v) \/ HoldsFollowKey(q, v, userId)
  \/ /\ pc[q] \in {"likeUpdate", "likeCommit", "repostUpdate", "repostCommit",
                   "commentUpdate", "commentCommit"}
     /\ \/ op[q].userId = userId
        \/ posts[op[q].target].exists /\ posts[op[q].target].userId = userId

OwnedPosts(userId) ==
  {i \in PostIds : posts[i].exists /\ posts[i].userId = userId}

\* Rows of other users that reference a post of userId: their likes,
\* comments and reposts.
ForeignRowsOn(userId) ==
  {r \in likes \cup comments \cup reposts :
     r.userId # userId /\ r.postId \in OwnedPosts(userId)}

\* user.service.ts:84-92: what the seven deletes of the batch leave.  No
\* counter of a remaining User or Post row is written.
DeleteUserRows(table, userId) ==
  {r \in table : r.userId # userId /\ r.postId \notin OwnedPosts(userId)}

DeleteUserFollows(userId) ==
  [k \in UserIds \X UserIds |->
     IF k[1] = userId \/ k[2] = userId THEN 0 ELSE follows[k]]

DeleteUserPosts(userId) ==
  [i \in PostIds |->
     IF i \in OwnedPosts(userId) THEN NoPost
     ELSE IF posts[i].parentPostId \in OwnedPosts(userId)
          THEN [posts[i] EXCEPT !.parentPostId = 0]
          ELSE posts[i]]

\* user.service.ts:83-95: the batch transaction.  The final user.delete
\* fails when the row is gone (P2025).  Where rows of other users reference
\* a post of the user, the referential action of their foreign key decides:
\* the delete of the post is refused (the batch rolls back) or the rows go
\* with the post; a reply keeps its row and loses its parentPostId.
DeleteUserTx(p) ==
  LET userId == op[p].userId
  IN /\ pc[p] = "deleteTx"
     /\ \A q \in Procs \ {p} : ~HoldsRowOf(q, userId)
     /\ \/ /\ ~users[userId].exists \/ ForeignRowsOn(userId) # {}
           /\ Throws(p, op[p])
           /\ UNCHANGED <<store, seqs, hist, calls>>
        \/ /\ users[userId].exists
           /\ likes' = DeleteUserRows(likes, userId)
           /\ comments' = DeleteUserRows(comments, userId)
           /\ reposts' = DeleteUserRows(reposts, userId)
           /\ follows' = DeleteUserFollows(userId)
           /\ posts' = DeleteUserPosts(userId)
           /\ users' = [users EXCEPT ![userId] =
                          [exists |-> FALSE, followerCount |-> 0,
                           followingCount |-> 0]]
           /\ Returns(p, op[p], "true")
           /\ UNCHANGED <<seqs, hist, calls>>

\* ------------------------------------------------------------ deletePost
\* post.service.ts:137-141: one updateMany, committed by itself; it waits for
\* an open transaction that wrote the row and returns count > 0.
DeletePost(p, userId, postId) ==
  /\ Begin(p)
  /\ ~PostLocked(p, postId)
  /\ LET o == Call("deletePost", userId, postId)
         count == IF /\ posts[postId].exists
                     /\ posts[postId].userId = userId
                     /\ ~posts[postId].isDeleted
                  THEN 1 ELSE 0
     IN IF count > 0
        THEN /\ posts' = [posts EXCEPT ![postId].isDeleted = TRUE]
             /\ softDeleted' = softDeleted \cup {postId}
             /\ Returns(p, [o EXCEPT !.found = count], "true")
        ELSE /\ Returns(p, o, "false")
             /\ UNCHANGED <<posts, softDeleted>>
  /\ UNCHANGED <<users, follows, likes, reposts, comments, seqs, likeToggles>>

\* ------------------------------------------------------------ updatePost
\* post.service.ts:128: new Date().  The clock reads the number of calls
\* received so far.
Now == calls

\* post.service.ts:120-124: findFirst by id, userId and isDeleted: false;
\* null is returned when no row matches.
UpdateFind(p, userId, postId, content) ==
  /\ Begin(p)
  /\ LET o == [Call("updatePost", userId, postId) EXCEPT !.content = content]
         postToUpdate == /\ posts[postId].exists
                         /\ posts[postId].userId = userId
                         /\ ~posts[postId].isDeleted
     IN IF ~postToUpdate THEN Returns(p, o, "null")
        ELSE Goto(p, [o EXCEPT !.found = postId], "updateWrite")
  /\ UNCHANGED <<store, seqs, hist>>

\* post.service.ts:126-130: prisma.post.update where id = postId alone,
\* committed by itself; a missing row fails it (P2025).
UpdateWrite(p) ==
  LET postId == op[p].target
  IN /\ pc[p] = "updateWrite"
     /\ ~PostLocked(p, postId)
     /\ IF posts[postId].exists
        THEN /\ posts' = [posts EXCEPT ![postId].content = op[p].content,
                                       ![postId].isEdited = TRUE,
                                       ![postId].updatedAt = Now]
             /\ Returns(p, op[p], "post")
        ELSE /\ Throws(p, op[p])
             /\ UNCHANGED posts
     /\ UNCHANGED <<users, follows, likes, reposts, comments, seqs, hist, calls>>

\* ------------------------------------------- getPosts and getPostDetail
\* post.service.ts:25-28: the likes included with a post.  A filter whose
\* value is undefined is left out of the query by Prisma, so without a
\* currentUserId every Like row of the post is included.
IncludedLikes(postId, currentUserId) ==
  {l \in likes : /\ l.postId = postId
                 /\ (currentUserId = 0 \/ l.userId = currentUserId)}

\* post.service.ts:29-32: the reposts included with a post.
IncludedReposts(postId, currentUserId) ==
  {r \in reposts : /\ r.postId = postId
                   /\ (currentUserId = 0 \/ r.userId = currentUserId)
                   /\ ~r.isQuotePost}

\* post.service.ts:35-49: the response for a post; the three counts are
\* the _count of the relation rows.
transformPost(postId, currentUserId) ==
  [id |-> postId,
   isLiked |-> Cardinality(IncludedLikes(postId, currentUserId)) > 0,
   isReposted |-> Cardinality(IncludedReposts(postId, currentUserId)) > 0,
   likeCount |-> Cardinality({l \in likes : l.postId = postId}),
   commentCount |-> Cardinality({c \in comments : c.postId = postId}),
   repostCount |-> Cardinality({r \in reposts : r.postId = postId})]

\* getPosts without isDeleted: false in its where clause.
whereClauseWithDeleted(postId) ==
  /\ posts[postId].exists
  /\ posts[postId].parentPostId = 0

\* post.service.ts:79: { isDeleted: false, parentPostId: null }.
whereClause(postId) ==
  /\ posts[postId].exists
  /\ ~posts[postId].isDeleted
  /\ posts[postId].parentPostId = 0

\* post.service.ts:83: orderBy createdAt desc.  Post rows get their ids in
\* the order they are created, so the newest post has the greatest id.
RECURSIVE NewestFirst(_)
NewestFirst(S) ==
  IF S = {} THEN <<>>
  ELSE LET newest == CHOOSE i \in S : \A j \in S : j <= i
       IN <<newest>> \o NewestFirst(S \ {newest})

\* post.service.ts:85-86: skip offset rows, then take limit rows.
Page(rows, limit, offset) ==
  LET last == IF offset + limit < Len(rows) THEN offset + limit ELSE Len(rows)
  IN SubSeq(rows, offset + 1, last)

\* post.service.ts:81-89: findMany, one statement, and the map.
GetPosts(p, currentUserId, limit, offset) ==
  /\ Begin(p)
  /\ LET found == Page(NewestFirst({i \in PostIds : whereClause(i)}),
                       limit, offset)
         o == Call("getPosts", currentUserId, 0)
     IN Returns(p, [o EXCEPT !.result =
                      [k \in 1..Len(found) |->
                         transformPost(found[k], currentUserId)]], "posts")
  /\ UNCHANGED <<store, seqs, hist>>

\* post.service.ts:96-109: findUnique by id and isDeleted: false; null when
\* no row matches.  The comments included with the post are left out of the
\* response modelled here.
GetPostDetail(p, postId, currentUserId) ==
  /\ Begin(p)
  /\ LET o == Call("getPostDetail", currentUserId, postId)
     IN IF posts[postId].exists /\ ~posts[postId].isDeleted
        THEN Returns(p, [o EXCEPT !.result =
                           <<transformPost(postId, currentUserId)>>], "post")
        ELSE Returns(p, o, "null")
  /\ UNCHANGED <<store, seqs, hist>>

\* ------------------------------------------------- errors and responses
\* A store error (lost connection, deadlock victim, timeout) or a crash at
\* the awaited call a request is at: the open transaction is rolled back,
\* statements that committed by themselves stay.
InFlight(p) == pc[p] # "idle"

StoreError(p) ==
  /\ InFlight(p)
  /\ Throws(p, op[p])
  /\ UNCHANGED <<store, seqs, hist, calls>>

\* -------------------------------------------------------- specifications
FollowSteps ==
  \/ \E p \in Procs, a \in UserIds, b \in UserIds : FollowStart(p, a, b)
  \/ \E p \in Procs : FollowTx(p)
  \/ \E p \in Procs, a \in UserIds, b \in UserIds : UnfollowStart(p, a, b)
  \/ \E p \in Procs : UnfollowUpdFollowing(p)
  \/ \E p \in Procs : UnfollowUpdFollower(p)
  \/ \E p \in Procs : UnfollowCommit(p)

LikeSteps ==
  \/ \E p \in Procs, u \in UserIds, i \in PostIds : LikeFind(p, u, i)
  \/ \E p \in Procs : LikeWrite(p)
  \/ \E p \in Procs : LikeUpdate(p)
  \/ \E p \in Procs : LikeCommit(p)

RepostSteps ==
  \/ \E p \in Procs, u \in UserIds, i \in PostIds : RepostFind(p, u, i)
  \/ \E p \in Procs : RepostWrite(p)
  \/ \E p \in Procs : RepostUpdate(p)
  \/ \E p \in Procs : RepostCommit(p)

QuoteSteps ==
  \/ \E p \in Procs, u \in UserIds, i \in PostIds : QuoteCreate(p, u, i)
  \/ \E p \in Procs : QuoteUpdate(p)

CommentSteps ==
  \/ \E p \in Procs, u \in UserIds, i \in PostIds : CommentCreate(p, u, i)
  \/ \E p \in Procs : CommentUpdate(p)
  \/ \E p \in Procs : CommentCommit(p)

PostSteps ==
  \/ \E p \in Procs, u \in UserIds, i \in PostIds \cup {0} : PostCreate(p, u, i)
  \/ \E p \in Procs : PostUpdateParent(p)

DeleteUserSteps ==
  \/ \E p \in Procs, u \in UserIds : DeleteUserFind(p, u)
  \/ \E p \in Procs : DeleteUserTx(p)

DeletePostSteps ==
  \E p \in Procs, u \in UserIds, i \in PostIds : DeletePost(p, u, i)

UpdateSteps ==
  \/ \E p \in Procs, u \in UserIds, i \in PostIds, c \in Texts :
       UpdateFind(p, u, i, c)
  \/ \E p \in Procs : UpdateWrite(p)

ReadSteps ==
  \/ \E p \in Procs, v \in Viewers, l \in Limits, s \in Offsets :
       GetPosts(p, v, l, s)
  \/ \E p \in Procs, i \in PostIds, v \in Viewers : GetPostDetail(p, i, v)

Errors == \E p \in Procs : StoreError(p)

\* followUser and unfollowUser.
NextFollow == FollowSteps \/ Errors
SpecFollow == Init /\ [][NextFollow]_vars

\* toggleLikePost.
NextLike == LikeSteps \/ Errors
SpecLike == Init /\ [][NextLike]_vars

\* toggleRepost and quotePost.
NextRepost == RepostSteps \/ QuoteSteps \/ Errors
SpecRepost == Init /\ [][NextRepost]_vars

\* createPost and addComment.
NextComment == PostSteps \/ CommentSteps \/ Errors
SpecComment == Init /\ [][NextComment]_vars

\* The operations that write a relation row together with a counter.
NextEngage ==
  \/ FollowSteps \/ LikeSteps \/ RepostSteps \/ QuoteSteps
  \/ CommentSteps \/ PostSteps \/ Errors
SpecEngage == Init /\ [][NextEngage]_vars

\* deleteUser among the transactional writers of rows and counters.
NextDelete ==
  FollowSteps \/ LikeSteps \/ RepostSteps \/ DeleteUserSteps \/ Errors
SpecDelete == Init /\ [][NextDelete]_vars

\* deletePost among updatePost, the like toggle and the reads.
NextPosts ==
  DeletePostSteps \/ UpdateSteps \/ ReadSteps \/ LikeSteps \/ Errors
SpecPosts == Init /\ [][NextPosts]_vars

\* updatePost and deletePost.
NextEdit == PostSteps \/ UpdateSteps \/ DeletePostSteps \/ Errors
SpecEdit == Init /\ [][NextEdit]_vars

\* The reads among the toggles.
NextView == LikeSteps \/ RepostSteps \/ QuoteSteps \/ ReadSteps \/ Errors
SpecView == Init /\ [][NextView]_vars

\* Every operation.
Next ==
  \/ NextEngage \/ DeleteUserSteps \/ DeletePostSteps \/ UpdateSteps
  \/ ReadSteps
Spec == Init /\ [][Next]_vars

\* ================================================================ claims
FollowerRows(u) == SumOver(UserIds, [v \in UserIds |-> follows[<<v, u>>]])
FollowingRows(u) == SumOver(UserIds, [v \in UserIds |-> follows[<<u, v>>]])

\* C2: in every committed state, under every interleaving of followUser and
\* unfollowUser steps, each user's followerCount is the number of Follower
\* rows with followingId = that user and followingCount the number of
\* Follower rows with userId = that user.
C2_CountersMatchFollowerRows ==
  \A u \in UserIds :
    /\ users[u].followerCount = FollowerRows(u)
    /\ users[u].followingCount = FollowingRows(u)

\* An unfollowUser call that deleted a row has returned while 1 follows 2.
C2_Witness ==
  /\ follows[<<1, 2>>] = 1
  /\ users[2].followerCount = 1
  /\ returned.name = "unfollowUser" /\ returned.found > 0

\* C8: a followUser(u, u) call ends in the step that starts it, with an
\* error, and that step leaves every row and counter as it was: no request
\* is ever past the start of followUser(u, u) and no Follower row <<u, u>>
\* ever exists.
C8_SelfFollowFails ==
  /\ [](\A u \in UserIds : follows[<<u, u>>] = 0)
  /\ [](\A p \in Procs :
          op[p].name = "followUser" => op[p].userId # op[p].target)
  /\ [][(returned'.name = "followUser" /\ returned'.userId = returned'.target)
          => (returned'.ret = "error" /\ pc' = pc /\ store' = store)]_vars

\* followUser(u, u) has thrown in a state where a Follower row exists.
C8_Witness ==
  /\ returned.name = "followUser" /\ returned.ret = "error"
  /\ returned.userId = returned.target
  /\ \E a, b \in UserIds : follows[<<a, b>>] = 1

\* C9: followUser(a, b) for distinct a, b called while the Follower row
\* (a, b) exists returns at once without an error and changes nothing; the
\* call that creates the row leaves exactly one row (a, b) and raises
\* a.followingCount and b.followerCount by exactly 1; there is never a
\* second row (a, b).
C9_FollowIdempotent ==
  /\ [](\A k \in UserIds \X UserIds : follows[k] <= 1)
  /\ [][\A p \in Procs :
          (pc[p] = "idle" /\ pc'[p] = "followTx")
          => follows[<<op'[p].userId, op'[p].target>>] = 0]_vars
  /\ [][(/\ returned'.name = "followUser" /\ pc' = pc
         /\ returned'.userId # returned'.target)
          => /\ follows[<<returned'.userId, returned'.target>>] = 1
             /\ returned'.ret = "void"
             /\ store' = store]_vars
  /\ [][\A p \in Procs :
          (pc[p] = "followTx" /\ returned'.ret = "void" /\ pc'[p] = "idle") =>
            LET a == op[p].userId
                b == op[p].target
            IN /\ follows[<<a, b>>] = 0 /\ follows'[<<a, b>>] = 1
               /\ users'[a].followingCount = users[a].followingCount + 1
               /\ users'[b].followerCount = users[b].followerCount + 1
               /\ users'[a].followerCount = users[a].followerCount
               /\ users'[b].followingCount = users[b].followingCount]_vars

\* The second followUser(a, b) has returned as a no-op: one row, counters 1.
C9_Witness ==
  /\ returned.name = "followUser" /\ returned.ret = "void"
  /\ returned.found > 0
  /\ LET a == returned.userId
         b == returned.target
     IN /\ follows[<<a, b>>] = 1
        /\ users[a].followingCount = 1
        /\ users[b].followerCount = 1

\* C10: an unfollowUser(a, b) call that deleted no row commits without
\* changing any row or counter; one that deleted the row lowers
\* a.followingCount and b.followerCount by exactly 1; no followerCount or
\* followingCount is ever below 0.
C10_UnfollowGuarded ==
  /\ [](\A u \in UserIds :
          users[u].followerCount >= 0 /\ users[u].followingCount >= 0)
  /\ [][\A p \in Procs :
          (pc[p] = "unfCommit" /\ returned'.ret = "void" /\ pc'[p] = "idle") =>
            LET a == op[p].userId
                b == op[p].target
            IN IF op[p].found = 0 THEN store' = store
               ELSE /\ follows'[<<a, b>>] = 0
                    /\ users'[a].followingCount = users[a].followingCount - 1
                    /\ users'[b].followerCount = users[b].followerCount - 1]_vars

\* unfollowUser found nothing to delete and returned; every counter is 0.
C10_Witness ==
  /\ returned.name = "unfollowUser" /\ returned.ret = "void"
  /\ returned.found = 0
  /\ \A u \in UserIds :
       users[u].followerCount = 0 /\ users[u].followingCount = 0

Odd(n) == n % 2 = 1

\* C1: starting with no Like row and likeCount 0, after N returned
\* toggleLikePost(u, P) calls a Like row (u, P) exists exactly when N is odd,
\* the N-th call returned true when N is odd and false when N is even, and
\* P.likeCount is its starting value plus 1 for every user whose N is odd.
C1_ToggleParity ==
  /\ [](\A u \in UserIds, i \in PostIds :
          Odd(likeToggles[<<u, i>>]) <=> LikeRowsOf(u, i) # {})
  /\ [](\A i \in PostIds :
          posts[i].likeCount =
            SumOver(UserIds, [u \in UserIds |-> likeToggles[<<u, i>>] % 2]))
  /\ [][\A u \in UserIds, i \in PostIds :
          likeToggles'[<<u, i>>] # likeToggles[<<u, i>>]
          => /\ likeToggles'[<<u, i>>] = likeToggles[<<u, i>>] + 1
             /\ returned'.name = "toggleLikePost"
             /\ returned'.userId = u /\ returned'.target = i
             /\ returned'.ret =
                  IF Odd(likeToggles'[<<u, i>>]) THEN "true" ELSE "false"]_vars

\* The third toggle of user 2 on post 1 has returned true; the first two
\* left the count where it started.
C1_Witness ==
  /\ likeToggles[<<2, 1>>] = 3
  /\ returned.name = "toggleLikePost" /\ returned.ret = "true"
  /\ LikeRowsOf(2, 1) # {}
  /\ posts[1].likeCount = 1

\* C3: under every interleaving of the steps of concurrent toggleLikePost
\* calls there is at most one Like row per (userId, postId) and every
\* post's likeCount is the number of Like rows for it.
C3_LikeUniqueAndCounted ==
  /\ \A u \in UserIds, i \in PostIds : Cardinality(LikeRowsOf(u, i)) <= 1
  /\ \A i \in PostIds :
       posts[i].likeCount = Cardinality({l \in likes : l.postId = i})

\* Two toggles of the same user on the same post both found no row; one has
\* created its row and updated the counter, the other is about to create.
C3_Witness ==
  \E p \in Procs, q \in Procs :
    /\ p # q
    /\ op[p].name = "toggleLikePost" /\ op[q].name = "toggleLikePost"
    /\ op[p].userId = op[q].userId /\ op[p].target = op[q].target
    /\ op[p].found = 0 /\ op[q].found = 0
    /\ pc[p] = "likeCommit" /\ pc[q] = "likeWrite"

LikesOn(i) == {l \in likes : l.postId = i}
RepostsOn(i) == {r \in reposts : r.postId = i}
QuotesOn(i) == {r \in reposts : r.postId = i /\ r.isQuotePost}
CommentsOn(i) == {c \in comments : c.postId = i /\ ~c.isDeleted}
RepliesTo(i) == {j \in PostIds : posts[j].exists /\ posts[j].parentPostId = i}
Quiet == \A p \in Procs : pc[p] = "idle"

\* C4: under every interleaving of the steps of concurrent toggleRepost
\* calls there is at most one Repost row with isQuotePost = false per
\* (userId, postId), and repostCount counts each user's plain repost at most
\* once next to the quote rows.
C4_PlainRepostUnique ==
  /\ \A u \in UserIds, i \in PostIds : Cardinality(PlainRepostsOf(u, i)) <= 1
  /\ \A i \in PostIds :
       posts[i].repostCount <=
         Cardinality(QuotesOn(i))
           + Cardinality({u \in UserIds : PlainRepostsOf(u, i) # {}})

\* C5: when a call has ended with an error and no other call is under way,
\* every relation row is there together with its counter update: likeCount,
\* repostCount and commentCount of each post are the numbers of its Like
\* rows, Repost rows and Comment rows plus replies, and the follow counters
\* of each user are the numbers of its Follower rows.
C5_AllOrNothing ==
  (returned.ret = "error" /\ Quiet) =>
    /\ \A i \in PostIds :
         /\ posts[i].likeCount = Cardinality(LikesOn(i))
         /\ posts[i].repostCount = Cardinality(RepostsOn(i))
         /\ posts[i].commentCount =
              Cardinality(CommentsOn(i)) + Cardinality(RepliesTo(i))
    /\ \A u \in UserIds :
         /\ users[u].followerCount = FollowerRows(u)
         /\ users[u].followingCount = FollowingRows(u)

\* C6: in every state reached by createPost and addComment calls, each
\* post's commentCount is the number of non-deleted Comment rows whose
\* postId references it.
C6_CommentCountIsCommentRows ==
  \A i \in PostIds : posts[i].commentCount = Cardinality(CommentsOn(i))

\* C7: when deleteUser has returned true, every remaining user's
\* followerCount and followingCount equal its Follower row counts and every
\* remaining post's likeCount and repostCount equal the numbers of Like and
\* Repost rows that reference it.
C7_DeleteUserKeepsCounters ==
  (returned.name = "deleteUser" /\ returned.ret = "true") =>
    /\ \A u \in UserIds :
         users[u].exists =>
           /\ users[u].followerCount = FollowerRows(u)
           /\ users[u].followingCount = FollowingRows(u)
    /\ \A i \in PostIds :
         posts[i].exists =>
           /\ posts[i].likeCount = Cardinality(LikesOn(i))
           /\ posts[i].repostCount = Cardinality(RepostsOn(i))

ResultIds(call) == {call.result[k].id : k \in DOMAIN call.result}

\* C11: a post for which deletePost has returned true keeps its row with
\* isDeleted = true whatever is called afterwards, no getPosts result
\* contains it, and getPostDetail of it returns null.
C11_SoftDeletedNeverShown ==
  /\ \A i \in softDeleted : posts[i].exists /\ posts[i].isDeleted
  /\ returned.name = "getPosts" => ResultIds(returned) \cap softDeleted = {}
  /\ (returned.name = "getPostDetail" /\ returned.target \in softDeleted)
       => (returned.ret = "null" /\ returned.result = <<>>)

\* getPostDetail has returned null for a post that was soft-deleted and
\* that carries a Like row.
C11_Witness ==
  /\ returned.name = "getPostDetail" /\ returned.ret = "null"
  /\ returned.target \in softDeleted
  /\ LikesOn(returned.target) # {}

\* The post row a call of userId on postId may edit.
Editable(userId, postId) ==
  /\ posts[postId].exists
  /\ posts[postId].userId = userId
  /\ ~posts[postId].isDeleted

Edited(i) == <<posts[i].content, posts[i].isEdited, posts[i].updatedAt>>

\* C12: the content, isEdited and updatedAt of a post change only in the
\* step that ends an updatePost call of the post's owner on a post that is
\* not soft-deleted, and isEdited is true afterwards; an updatePost call
\* that comes to its write when the post is missing, of another user or
\* soft-deleted (a deletePost may have run since its check) returns null
\* and changes no post.
C12_UpdateOnlyLiveOwned ==
  /\ [][\A i \in PostIds :
          (posts[i].exists /\ posts'[i].exists /\ Edited(i)' # Edited(i))
          => /\ returned'.name = "updatePost" /\ returned'.ret = "post"
             /\ returned'.target = i
             /\ Editable(returned'.userId, i)
             /\ posts'[i].isEdited]_vars
  /\ [][(/\ returned'.name = "updatePost" /\ returned'.ret # "error"
         /\ ~Editable(returned'.userId, returned'.target))
          => (returned'.ret = "null" /\ posts' = posts)]_vars

\* C13: no step removes a Repost row with isQuotePost = true; the first
\* statement of every quotePost call adds exactly one such row of the caller;
\* a toggleRepost call that returns has created (true) or deleted (false)
\* exactly one row, the caller's isQuotePost = false row for the post; and
\* when no call is under way every post's repostCount is the number of
\* Repost rows, quote and non-quote, that reference it.
C13_QuoteNeverToggles ==
  /\ [][{r \in reposts : r.isQuotePost} \subseteq reposts']_vars
  /\ [][\A p \in Procs :
          (pc[p] = "idle" /\ pc'[p] = "quoteUpdate")
          => /\ reposts \subseteq reposts'
             /\ \E r \in reposts' \ reposts :
                  /\ reposts' \ reposts = {r}
                  /\ r.isQuotePost
                  /\ r.userId = op'[p].userId /\ r.postId = op'[p].target]_vars
  /\ [][(returned'.name = "toggleRepost" /\ returned'.ret \in {"true", "false"})
          => LET created == reposts' \ reposts
                 deleted == reposts \ reposts'
                 mine(r) == /\ ~r.isQuotePost
                            /\ r.userId = returned'.userId
                            /\ r.postId = returned'.target
             IN IF returned'.ret = "true"
                THEN deleted = {} /\ \E r \in created : created = {r} /\ mine(r)
                ELSE created = {} /\ \E r \in deleted : deleted = {r} /\ mine(r)]_vars
  /\ [](Quiet => \A i \in PostIds :
                   posts[i].repostCount = Cardinality(RepostsOn(i)))

\* C14: in every result of getPosts and getPostDetail for a viewer v, a
\* post's isLiked is true exactly when v is a user and a Like row (v, post)
\* exists, and isReposted exactly when v is a user and a Repost row
\* (v, post) with isQuotePost = false exists; without a current user (v = 0)
\* both are false.
C14_FlagsAreViewersOwn ==
  returned.name \in {"getPosts", "getPostDetail"} =>
    \A k \in DOMAIN returned.result :
      LET v == returned.userId
          r == returned.result[k]
      IN /\ r.isLiked <=> (v # 0 /\ LikeRowsOf(v, r.id) # {})
         /\ r.isReposted <=> (v # 0 /\ PlainRepostsOf(v, r.id) # {})

====
